---- MODULE Spec2Model ----
(***************************************************************************)
(* Model of backend/web_app.py: the public panel API (Gateway) and the     *)
(* bot control server (Controller) it forwards to.                         *)
(*                                                                         *)
(* The Controller runs on one asyncio loop: a handler runs without         *)
(* preemption from one await that really suspends to the next.  Each       *)
(* action below is one such run (a turn of the loop); a handler with no    *)
(* suspending await is one action.  `last` records what the turn did and   *)
(* answered; EndTurn closes the turn.                                      *)
(*                                                                         *)
(* The libraries are modelled by what the calls made in the source do:     *)
(*  - FastAPI decodes a JSON body before it solves the dependencies of a   *)
(*    route, and solves the dependencies before it validates parameters    *)
(*    and body against the schema;                                         *)
(*  - discord.py registers one voice client per guild, registers it before *)
(*    the handshake completes, and Connectable.connect raises when the     *)
(*    guild already has one; VoiceClient.play raises when the client is    *)
(*    not connected or is playing.                                         *)
(***************************************************************************)
EXTENDS Integers, Sequences, FiniteSets, TLC

VARIABLES
    voice_clients,        \* bot.voice_clients: the registered handles, in order
    reqs,                 \* Controller handlers suspended at an await, by slot
    last,                 \* what the current turn of the Controller did / answered
    TTS_VOICE,            \* process-wide synthesis voice
    active_persona,       \* process-wide persona
    channel_history,      \* channel id -> history
    conversation_memory,  \* str(user id) -> history
    gw                    \* the last exchange of the Gateway

vars == <<voice_clients, reqs, last, TTS_VOICE, active_persona,
          channel_history, conversation_memory, gw>>

(***************************************************************************)
(* Bounds of the model.                                                    *)
(***************************************************************************)
MaxInFlight == 2          \* Controller handlers suspended at the same time

(***************************************************************************)
(* Configuration and the topology the bot sees.                            *)
(***************************************************************************)
NoHeader == "<none>"                      \* Header(None): the header is absent
PANEL_API_KEY == "CHANGE_ME"
BOT_CONTROL_KEY == "CHANGE_ME_TOO"

GuildIds == {1, 2}                        \* bot.get_guild(id) is not None
VoiceChannelIds == {11, 12, 21}           \* isinstance(ch, discord.VoiceChannel)
TextChannelIds == {13}                    \* the other channels get_channel finds
GuildOf(c) == c \div 10                   \* ch.guild
NoChannel == 0                            \* voice_channel_id: None (falsy)
ChannelExists(cid) == cid \in VoiceChannelIds \cup TextChannelIds

Slots == 1..MaxInFlight

(***************************************************************************)
(* discord.VoiceClient: a handle and its audio player.                     *)
(***************************************************************************)
NoVolume == 0 - 1                         \* a source that has no volume attribute
NoText == 0                               \* no synthesized text
NoPlayer == [kind |-> "none", vol |-> NoVolume, st |-> "none", file |-> "", text |-> NoText]

is_connected(h) == h.conn = "connected"
is_playing(h) == h.player.st = "playing"
is_paused(h) == h.player.st = "paused"
HasSource(h) == h.player.kind # "none"                \* vc.source
IsVolumeTransformer(h) == h.player.kind = "yt"        \* PCMVolumeTransformer

vc_stop(h) == [h EXCEPT !.player = NoPlayer]
vc_pause(h) == IF HasSource(h) THEN [h EXCEPT !.player.st = "paused"] ELSE h
vc_resume(h) == IF HasSource(h) THEN [h EXCEPT !.player.st = "playing"] ELSE h

\* vc.play(source) raises ClientException when not connected or already playing
CanPlay(h) == is_connected(h) /\ ~is_playing(h)
vc_play(h, kind, vol) ==
    [h EXCEPT !.player = [kind |-> kind, vol |-> vol, st |-> "playing",
                          file |-> "", text |-> NoText]]
\* vc.play(discord.FFmpegPCMAudio(out_path)): ffmpeg reads the scratch file
\* out_path, which holds the audio synthesized from text, as it plays
vc_play_file(h, file, text) ==
    [h EXCEPT !.player = [kind |-> "tts", vol |-> NoVolume, st |-> "playing",
                          file |-> file, text |-> text]]

\* discord.utils.get(bot.voice_clients, guild=g) and guild.voice_client:
\* the position of the first registered handle of guild g, 0 for None
IdxOfGuild(vcs, g) ==
    IF \E i \in 1..Len(vcs) : vcs[i].guild = g
    THEN CHOOSE i \in 1..Len(vcs) :
            /\ vcs[i].guild = g
            /\ \A j \in 1..(i-1) : vcs[j].guild # g
    ELSE 0

\* the registered position of the handle object a handler holds, 0 if removed
IdxOfId(vcs, id) ==
    IF \E i \in 1..Len(vcs) : vcs[i].id = id
    THEN CHOOSE i \in 1..Len(vcs) : vcs[i].id = id
    ELSE 0

\* next((v for v in bot.voice_clients if v.is_connected()), None)
FirstConnected(vcs) ==
    IF \E i \in 1..Len(vcs) : is_connected(vcs[i])
    THEN CHOOSE i \in 1..Len(vcs) :
            /\ is_connected(vcs[i])
            /\ \A j \in 1..(i-1) : ~is_connected(vcs[j])
    ELSE 0

RemoveAt(vcs, i) == [j \in 1..(Len(vcs)-1) |-> IF j < i THEN vcs[j] ELSE vcs[j+1]]
SetAt(vcs, i, h) == [vcs EXCEPT ![i] = h]

(***************************************************************************)
(* A request handled by the Controller.  pc names the await the handler is *)
(* suspended at; h is the handle object its local vc refers to.            *)
(***************************************************************************)
Req(cmd, key, payload, vcid, tcid, gid) ==
    [cmd |-> cmd, key |-> key, payload |-> payload, pc |-> "start",
     vcid |-> vcid, tcid |-> tcid, gid |-> gid,
     h |-> 0, skit |-> "none", name |-> "", level |-> 0, text |-> NoText, voice |-> ""]
Free == [cmd |-> "free", key |-> "", payload |-> "", pc |-> "free",
         vcid |-> 0, tcid |-> 0, gid |-> 0,
         h |-> 0, skit |-> "none", name |-> "", level |-> 0, text |-> NoText, voice |-> ""]
NoLevel == 0 - 1                          \* the response carries no "level"
Idle == [req |-> Free, status |-> 0, detail |-> "", failed |-> "",
         calls |-> <<>>, level |-> NoLevel]

\* a free slot for a handler that may suspend (D.slots: the slots a
\* specification lets handlers use)
HasFree(D) == \E s \in D.slots : reqs[s] = Free
LowestFree(D) == CHOOSE s \in D.slots : reqs[s] = Free /\ \A t \in 1..(s-1) : reqs[t] # Free

\* identity of a new VoiceClient object: not that of a registered handle,
\* nor of one a suspended handler still refers to
FreshId ==
    CHOOSE n \in 1..(Len(voice_clients) + MaxInFlight + 1) :
        /\ \A i \in 1..Len(voice_clients) : voice_clients[i].id # n
        /\ \A s \in Slots : reqs[s].h # n

\* the handler returns or raises: the response leaves, the slot is released.
\* failed names the helper or runtime call that raised, if one did; r.pc is
\* the point this turn ran from ("start", or the await it resumed at)
Done(s, r, status, detail, failed, calls, vcs) ==
    /\ last = Idle
    /\ voice_clients' = vcs
    /\ reqs' = [reqs EXCEPT ![s] = Free]
    /\ last' = [req |-> r, status |-> status, detail |-> detail,
                failed |-> failed, calls |-> calls, level |-> NoLevel]

\* the handler suspends at the await r.pc names
Wait(s, r, calls, vcs) ==
    /\ last = Idle
    /\ voice_clients' = vcs
    /\ reqs' = [reqs EXCEPT ![s] = r]
    /\ last' = [req |-> r, status |-> 0, detail |-> "", failed |-> "",
                calls |-> calls, level |-> NoLevel]

\* a handler with no await: the response leaves in the turn that starts it
Reply(r, status, detail, calls, vcs, level) ==
    /\ last = Idle
    /\ voice_clients' = vcs
    /\ reqs' = reqs
    /\ last' = [req |-> r, status |-> status, detail |-> detail,
                failed |-> "", calls |-> calls, level |-> level]

ProcessWide == <<TTS_VOICE, active_persona, channel_history, conversation_memory>>

(***************************************************************************)
(* What FastAPI does with a request before the handler body runs.          *)
(* payload is "valid", "invalid" (decodes, fails the schema) or            *)
(* "malformed" (the JSON body does not decode).                            *)
(***************************************************************************)
\* require_internal_key, the dependency of every route but /ctl/ping
require_internal_key(key) == key = BOT_CONTROL_KEY

Gate(hasBody, authorized, payload) ==
    IF hasBody /\ payload = "malformed" THEN 422
    ELSE IF ~authorized THEN 401
    ELSE IF payload # "valid" THEN 422
    ELSE 200

Rejected(r, status) ==
    /\ Reply(r, status,
             IF status = 401 THEN "Unauthorized (internal)" ELSE "validation error",
             <<>>, voice_clients, NoLevel)
    /\ UNCHANGED ProcessWide

CtlGate(r, hasBody) == Gate(hasBody, require_internal_key(r.key), r.payload)

(***************************************************************************)
(* ctl_playyt after _ensure_vc_for_channel has returned (lines 283-314):   *)
(* resolve, locate the handle, stop the old source, play the new one,      *)
(* announce.  get_stream and make_audio_source are synchronous calls that  *)
(* may raise; the announcement is best effort: it is awaited after play,   *)
(* touches no handle, and its failure is swallowed, so the answer is       *)
(* recorded in the turn that plays.                                        *)
(***************************************************************************)
DefaultVolume == 90                       \* PCMVolumeTransformer(volume=0.9)

playyt_locate(r, vcs) ==
    IF r.vcid # NoChannel
    THEN IdxOfGuild(vcs, GuildOf(r.vcid))
    ELSE FirstConnected(vcs)

\* a variant whose play leaves a source that is already bound in place
playyt_play_keeps_old(s, r, vcs, calls, i) ==
    LET h  == vcs[i]
        announce == IF \E t \in TextChannelIds : GuildOf(t) = h.guild
                    THEN <<"send:now playing">> ELSE <<>>
    IN  IF is_playing(h) \/ is_paused(h)
        THEN Done(s, r, 200, "", "", calls \o <<"play">> \o announce, vcs)
        ELSE IF CanPlay(h)
        THEN Done(s, r, 200, "", "", calls \o <<"play">> \o announce,
                  SetAt(vcs, i, [vc_play(h, "yt", DefaultVolume)
                                    EXCEPT !.player.text = r.text]))
        ELSE Done(s, r, 500, "FFmpeg/playback error", "play", calls \o <<"play">>,
                  SetAt(vcs, i, h))

playyt_play(s, r, vcs, calls, i) ==
    LET h  == vcs[i]
        h1 == IF is_playing(h) \/ is_paused(h) THEN vc_stop(h) ELSE h
        c1 == IF is_playing(h) \/ is_paused(h) THEN calls \o <<"stop">> ELSE calls
        announce == IF \E t \in TextChannelIds : GuildOf(t) = h.guild
                    THEN <<"send:now playing">> ELSE <<>>
    IN  IF CanPlay(h1)
        THEN Done(s, r, 200, "", "", c1 \o <<"play">> \o announce,
                  SetAt(vcs, i, [vc_play(h1, "yt", DefaultVolume)
                                    EXCEPT !.player.text = r.text]))
        ELSE Done(s, r, 500, "FFmpeg/playback error", "play", c1 \o <<"play">>,
                  SetAt(vcs, i, h1))

\* a variant that clears the located handle's source before it resolves
playyt_rest_stops_first(s, r, vcs, calls) ==
    \E resolved \in BOOLEAN, sourceOk \in BOOLEAN :
        LET c1 == calls \o <<"get_stream">>
            i  == playyt_locate(r, vcs)
            v1 == IF i # 0 THEN SetAt(vcs, i, vc_stop(vcs[i])) ELSE vcs
        IN  IF ~resolved
            THEN Done(s, r, 400, "yt-dlp error", "get_stream", c1, v1)
            ELSE IF i = 0
            THEN Done(s, r, 400, "Bot not in a voice channel", "", c1, vcs)
            ELSE IF ~sourceOk
            THEN Done(s, r, 500, "FFmpeg/playback error", "make_audio_source",
                      c1 \o <<"make_audio_source">>, v1)
            ELSE playyt_play(s, r, v1, c1 \o <<"make_audio_source">>, i)

playyt_rest(s, r, vcs, calls) ==
    \E resolved \in BOOLEAN, sourceOk \in BOOLEAN :
        LET c1 == calls \o <<"get_stream">>
            i  == playyt_locate(r, vcs)
        IN  IF ~resolved
            THEN Done(s, r, 400, "yt-dlp error", "get_stream", c1, vcs)
            ELSE IF i = 0
            THEN Done(s, r, 400, "Bot not in a voice channel", "", c1, vcs)
            ELSE IF ~sourceOk
            THEN Done(s, r, 500, "FFmpeg/playback error", "make_audio_source",
                      c1 \o <<"make_audio_source">>, vcs)
            ELSE playyt_play(s, r, vcs, c1 \o <<"make_audio_source">>, i)

(***************************************************************************)
(* ctl_sfx after _ensure_vc_for_channel has returned (lines 385-391).      *)
(***************************************************************************)
sfx_rest(s, r, vcs, calls) ==
    \E sourceOk \in BOOLEAN :
        LET i  == IdxOfId(vcs, r.h)
            h  == vcs[i]
            h1 == IF is_playing(h) THEN vc_stop(h) ELSE h
            c1 == IF is_playing(h) THEN calls \o <<"stop">> ELSE calls
        IN  IF ~sourceOk
            THEN Done(s, r, 500, "Could not play sound", "FFmpegPCMAudio", c1,
                      SetAt(vcs, i, h1))
            ELSE IF CanPlay(h1)
            THEN Done(s, r, 200, "", "", c1 \o <<"play">>,
                      SetAt(vcs, i, vc_play(h1, "sfx", NoVolume)))
            ELSE Done(s, r, 500, "Could not play sound", "play", c1 \o <<"play">>,
                      SetAt(vcs, i, h1))

(***************************************************************************)
(* What a handler does with the handle _ensure_vc_for_channel returned.    *)
(* ctl_speak (line 396) and ctl_equipmentcheck_soundoff (line 437) await   *)
(* ai_tts next, called with the TTS_VOICE of that moment.                  *)
(***************************************************************************)
AfterEnsure(s, r, vcs, calls) ==
    CASE r.cmd = "join"   -> Done(s, r, 200, "", "", calls, vcs)
      [] r.cmd = "playyt" -> playyt_rest(s, r, vcs, calls)
      [] r.cmd = "sfx"    -> sfx_rest(s, r, vcs, calls)
      [] OTHER            -> Wait(s, [r EXCEPT !.pc = "ai_tts", !.voice = TTS_VOICE],
                                  calls \o <<"ai_tts">>, vcs)

(***************************************************************************)
(* _ensure_vc_for_channel (lines 237-246), up to its first await.          *)
(* ch.connect() registers the new client before it awaits the handshake    *)
(* and raises ClientException when the guild already has a client.         *)
(***************************************************************************)
NewHandle(id, cid) ==
    [id |-> id, guild |-> GuildOf(cid), channel |-> cid, conn |-> "connecting",
     player |-> NoPlayer]

\* a variant in which the runtime registers a client without looking for
\* one the guild already has
connect_unchecked(s, r, calls) ==
    Wait(s, [r EXCEPT !.pc = "connect", !.h = FreshId],
         calls \o <<"connect">>,
         Append(voice_clients, NewHandle(FreshId, r.vcid)))

connect(s, r, calls) ==
    IF IdxOfGuild(voice_clients, GuildOf(r.vcid)) # 0
    THEN Done(s, r, 500, "Already connected to a voice channel.", "connect",
              calls \o <<"connect">>, voice_clients)
    ELSE Wait(s, [r EXCEPT !.pc = "connect", !.h = FreshId],
              calls \o <<"connect">>,
              Append(voice_clients, NewHandle(FreshId, r.vcid)))

\* a variant that moves a connected handle without comparing destinations
ensure_always_moves(s, r, calls) ==
    IF r.vcid \notin VoiceChannelIds
    THEN Done(s, r, 400, "is not a voice channel", "", calls, voice_clients)
    ELSE LET i == IdxOfGuild(voice_clients, GuildOf(r.vcid)) IN
         IF i # 0 /\ is_connected(voice_clients[i])
         THEN Wait(s, [r EXCEPT !.pc = "move_to", !.h = voice_clients[i].id],
                   calls \o <<"move_to">>, voice_clients)
         ELSE connect(s, r, calls)

_ensure_vc_for_channel(s, r, calls) ==
    IF r.vcid \notin VoiceChannelIds
    THEN Done(s, r, 400, "is not a voice channel", "", calls, voice_clients)
    ELSE LET i == IdxOfGuild(voice_clients, GuildOf(r.vcid)) IN
         IF i # 0 /\ is_connected(voice_clients[i])
         THEN IF voice_clients[i].channel # r.vcid
              THEN Wait(s, [r EXCEPT !.pc = "move_to", !.h = voice_clients[i].id],
                        calls \o <<"move_to">>, voice_clients)
              ELSE AfterEnsure(s, [r EXCEPT !.h = voice_clients[i].id],
                               voice_clients, calls)
         ELSE connect(s, r, calls)

\* await vc.move_to(ch) returns (line 244)
MoveDone(s) ==
    /\ last = Idle
    /\ reqs[s].pc = "move_to"
    /\ LET r == reqs[s]
           i == IdxOfId(voice_clients, r.h)
       IN  IF i # 0 /\ is_connected(voice_clients[i])
           THEN AfterEnsure(s, r,
                    SetAt(voice_clients, i, [voice_clients[i] EXCEPT !.channel = r.vcid]),
                    <<>>)
           ELSE Done(s, r, 500, "move failed", "move_to", <<>>, voice_clients)
    /\ UNCHANGED <<ProcessWide, gw>>

\* await ch.connect() returns the connected client (line 246)
ConnectDone(s) ==
    /\ last = Idle
    /\ reqs[s].pc = "connect"
    /\ LET r == reqs[s]
           i == IdxOfId(voice_clients, r.h)
       IN  AfterEnsure(s, r,
                SetAt(voice_clients, i, [voice_clients[i] EXCEPT !.conn = "connected"]),
                <<>>)
    /\ UNCHANGED <<ProcessWide, gw>>

\* await ch.connect() times out: the client is cleaned up, the error propagates
ConnectFail(s) ==
    /\ last = Idle
    /\ reqs[s].pc = "connect"
    /\ LET r == reqs[s]
           i == IdxOfId(voice_clients, r.h)
       IN  Done(s, r, 500, "connect failed", "connect", <<>>, RemoveAt(voice_clients, i))
    /\ UNCHANGED <<ProcessWide, gw>>

(***************************************************************************)
(* ctl_speak lines 397-403 / ctl_equipmentcheck_soundoff lines 438-444:    *)
(* ai_tts has returned (or raised); persist, stop if playing, play.        *)
(* vc is the object obtained before the await, registered or not.          *)
(***************************************************************************)
Detached == [id |-> 0, guild |-> 0, channel |-> 0, conn |-> "closed", player |-> NoPlayer]

\* out_path: one fixed scratch file per route (lines 397 and 438)
ScratchFile(r) == IF r.cmd = "speak" THEN "speak_api.mp3" ELSE "eqcso_api.mp3"

\* what a source plays once its file was truncated and rewritten under it
Garbled == 0 - 1

\* open(out_path, "wb") and f.write (lines 398-399, 439-440): every other
\* handle whose ffmpeg still reads that file either had read it all
\* (clobber false) or goes on with what the file holds now
Overwrite(vcs, file, i, clobber) ==
    [j \in 1..Len(vcs) |->
        IF /\ j # i
           /\ clobber
           /\ vcs[j].player.file = file
           /\ is_playing(vcs[j]) \/ is_paused(vcs[j])
        THEN [vcs[j] EXCEPT !.player.text = Garbled]
        ELSE vcs[j]]

\* a variant that answers success when the synthesis raised
TtsDone_swallows(s) ==
    /\ last = Idle
    /\ reqs[s].pc = "ai_tts"
    /\ \E synthesized \in BOOLEAN, clobber \in BOOLEAN :
        LET r  == reqs[s]
            i  == IdxOfId(voice_clients, r.h)
            h  == IF i # 0 THEN voice_clients[i] ELSE Detached
            h1 == IF is_playing(h) THEN vc_stop(h) ELSE h
            c1 == IF is_playing(h) THEN <<"write", "stop">> ELSE <<"write">>
            v1 == Overwrite(voice_clients, ScratchFile(r), i, clobber)
        IN  IF ~synthesized
            THEN Done(s, r, 200, "", "", <<>>, voice_clients)
            ELSE IF CanPlay(h1)
            THEN Done(s, r, 200, "", "", c1 \o <<"play">>,
                      SetAt(v1, i, vc_play_file(h1, ScratchFile(r), r.text)))
            ELSE Done(s, r, 500, "Not connected to voice.", "play", c1 \o <<"play">>,
                      IF i # 0 THEN SetAt(v1, i, h1) ELSE v1)
    /\ UNCHANGED <<ProcessWide, gw>>

TtsDone(s) ==
    /\ last = Idle
    /\ reqs[s].pc = "ai_tts"
    /\ \E synthesized \in BOOLEAN, clobber \in BOOLEAN :
        LET r  == reqs[s]
            i  == IdxOfId(voice_clients, r.h)
            h  == IF i # 0 THEN voice_clients[i] ELSE Detached
            h1 == IF is_playing(h) THEN vc_stop(h) ELSE h
            c1 == IF is_playing(h) THEN <<"write", "stop">> ELSE <<"write">>
            v1 == Overwrite(voice_clients, ScratchFile(r), i, clobber)
        IN  IF ~synthesized
            THEN Done(s, r, 500, "ai_tts failed", "ai_tts", <<>>, voice_clients)
            ELSE IF CanPlay(h1)
            THEN Done(s, r, 200, "", "", c1 \o <<"play">>,
                      SetAt(v1, i, vc_play_file(h1, ScratchFile(r), r.text)))
            ELSE Done(s, r, 500, "Not connected to voice.", "play", c1 \o <<"play">>,
                      IF i # 0 THEN SetAt(v1, i, h1) ELSE v1)
    /\ UNCHANGED <<ProcessWide, gw>>

(***************************************************************************)
(* Handlers of the voice routes.  D gives the inputs a specification       *)
(* offers: keys, payloads, channel and guild ids, names, levels.           *)
(***************************************************************************)
ctl_join(D) ==
    /\ last = Idle
    /\ \E key \in D.keys, payload \in D.payloads, vcid \in D.vc :
        LET r == Req("join", key, payload, vcid, 0, 0) IN
        /\ IF CtlGate(r, TRUE) # 200
           THEN Rejected(r, CtlGate(r, TRUE))
           ELSE /\ HasFree(D)
                /\ _ensure_vc_for_channel(LowestFree(D), r, <<>>)
                /\ UNCHANGED ProcessWide
        /\ UNCHANGED gw

\* a variant whose disconnect tears the connection down under a live player
ctl_leave_keeps_player(D) ==
    /\ last = Idle
    /\ \E key \in D.keys, payload \in D.payloads, gid \in D.gid :
        LET r == Req("leave", key, payload, 0, 0, gid)
            i == IdxOfGuild(voice_clients, gid)
        IN
        /\ IF CtlGate(r, TRUE) # 200
           THEN Rejected(r, CtlGate(r, TRUE))
           ELSE /\ HasFree(D)
                /\ IF gid \notin GuildIds
                   THEN Done(LowestFree(D), r, 404, "Guild not found", "", <<>>, voice_clients)
                   ELSE IF i # 0 /\ is_connected(voice_clients[i])
                   THEN Wait(LowestFree(D),
                             [r EXCEPT !.pc = "disconnect", !.h = voice_clients[i].id],
                             <<"disconnect">>,
                             SetAt(voice_clients, i,
                                   [voice_clients[i] EXCEPT !.conn = "closing"]))
                   ELSE Done(LowestFree(D), r, 200, "", "", <<>>, voice_clients)
                /\ UNCHANGED ProcessWide
        /\ UNCHANGED gw

\* vc.disconnect(force=True) stops the player and marks the client
\* disconnected at once, then awaits the teardown
ctl_leave(D) ==
    /\ last = Idle
    /\ \E key \in D.keys, payload \in D.payloads, gid \in D.gid :
        LET r == Req("leave", key, payload, 0, 0, gid)
            i == IdxOfGuild(voice_clients, gid)
        IN
        /\ IF CtlGate(r, TRUE) # 200
           THEN Rejected(r, CtlGate(r, TRUE))
           ELSE /\ HasFree(D)
                /\ IF gid \notin GuildIds
                   THEN Done(LowestFree(D), r, 404, "Guild not found", "", <<>>, voice_clients)
                   ELSE IF i # 0 /\ is_connected(voice_clients[i])
                   THEN Wait(LowestFree(D),
                             [r EXCEPT !.pc = "disconnect", !.h = voice_clients[i].id],
                             <<"disconnect">>,
                             SetAt(voice_clients, i,
                                   [vc_stop(voice_clients[i]) EXCEPT !.conn = "closing"]))
                   ELSE Done(LowestFree(D), r, 200, "", "", <<>>, voice_clients)
                /\ UNCHANGED ProcessWide
        /\ UNCHANGED gw

\* await vc.disconnect(force=True) returns: cleanup() has unregistered the client
DisconnectDone(s) ==
    /\ last = Idle
    /\ reqs[s].pc = "disconnect"
    /\ LET r == reqs[s]
           i == IdxOfId(voice_clients, r.h)
       IN  Done(s, r, 200, "", "", <<>>,
                IF i # 0 THEN RemoveAt(voice_clients, i) ELSE voice_clients)
    /\ UNCHANGED <<ProcessWide, gw>>

ctl_playyt(D) ==
    /\ last = Idle
    /\ \E key \in D.keys, payload \in D.payloads, vcid \in D.vc \cup {NoChannel},
          url \in D.texts :                 \* p.url, named by what it resolves to
        LET r == [Req("playyt", key, payload, vcid, 0, 0) EXCEPT !.text = url] IN
        /\ IF CtlGate(r, TRUE) # 200
           THEN Rejected(r, CtlGate(r, TRUE))
           ELSE /\ HasFree(D)
                /\ IF r.vcid # NoChannel
                   THEN _ensure_vc_for_channel(LowestFree(D), r, <<>>)
                   ELSE playyt_rest(LowestFree(D), r, voice_clients, <<>>)
                /\ UNCHANGED ProcessWide
        /\ UNCHANGED gw

(***************************************************************************)
(* Pause / Resume / Skip / Stop (lines 316-354): no await, one turn each.  *)
(* The guild id is a query parameter; there is no body.                    *)
(***************************************************************************)
NoClient(gid) == gid \notin GuildIds \/ IdxOfGuild(voice_clients, gid) = 0

pause_effect(h) == IF is_playing(h) THEN vc_pause(h) ELSE h
resume_effect(h) == IF is_paused(h) THEN vc_resume(h) ELSE h
skip_effect(h) == IF is_playing(h) \/ is_paused(h) THEN vc_stop(h) ELSE h
\* a variant of Stop that clears a paused source too, as Skip does
stop_like_skip(h) == IF is_playing(h) \/ is_paused(h) THEN vc_stop(h) ELSE h
stop_effect(h) == IF is_playing(h) THEN vc_stop(h) ELSE h

ctl_pause(D) ==
    /\ last = Idle
    /\ \E key \in D.keys, payload \in D.payloads, gid \in D.gid :
        LET r == Req("pause", key, payload, 0, 0, gid)
            i == IdxOfGuild(voice_clients, gid)
        IN
        /\ IF CtlGate(r, FALSE) # 200
           THEN Rejected(r, CtlGate(r, FALSE))
           ELSE /\ IF NoClient(gid)
                   THEN Reply(r, 400, "No voice client for guild", <<>>, voice_clients, NoLevel)
                   ELSE Reply(r, 200, "",
                              IF is_playing(voice_clients[i]) THEN <<"pause">> ELSE <<>>,
                              SetAt(voice_clients, i, pause_effect(voice_clients[i])), NoLevel)
                /\ UNCHANGED ProcessWide
        /\ UNCHANGED gw

ctl_resume(D) ==
    /\ last = Idle
    /\ \E key \in D.keys, payload \in D.payloads, gid \in D.gid :
        LET r == Req("resume", key, payload, 0, 0, gid)
            i == IdxOfGuild(voice_clients, gid)
        IN
        /\ IF CtlGate(r, FALSE) # 200
           THEN Rejected(r, CtlGate(r, FALSE))
           ELSE /\ IF NoClient(gid)
                   THEN Reply(r, 400, "No voice client for guild", <<>>, voice_clients, NoLevel)
                   ELSE Reply(r, 200, "",
                              IF is_paused(voice_clients[i]) THEN <<"resume">> ELSE <<>>,
                              SetAt(voice_clients, i, resume_effect(voice_clients[i])), NoLevel)
                /\ UNCHANGED ProcessWide
        /\ UNCHANGED gw

ctl_skip(D) ==
    /\ last = Idle
    /\ \E key \in D.keys, payload \in D.payloads, gid \in D.gid :
        LET r == Req("skip", key, payload, 0, 0, gid)
            i == IdxOfGuild(voice_clients, gid)
        IN
        /\ IF CtlGate(r, FALSE) # 200
           THEN Rejected(r, CtlGate(r, FALSE))
           ELSE /\ IF NoClient(gid)
                   THEN Reply(r, 400, "No voice client for guild", <<>>, voice_clients, NoLevel)
                   ELSE Reply(r, 200, "",
                              IF is_playing(voice_clients[i]) \/ is_paused(voice_clients[i])
                              THEN <<"stop">> ELSE <<>>,
                              SetAt(voice_clients, i, skip_effect(voice_clients[i])), NoLevel)
                /\ UNCHANGED ProcessWide
        /\ UNCHANGED gw

\* ctl_stop differs from its three siblings: an unknown guild is 404, and a
\* known guild without a voice client is a plain success (lines 348-354)
ctl_stop(D) ==
    /\ last = Idle
    /\ \E key \in D.keys, payload \in D.payloads, gid \in D.gid :
        LET r == Req("stop", key, payload, 0, 0, gid)
            i == IdxOfGuild(voice_clients, gid)
        IN
        /\ IF CtlGate(r, FALSE) # 200
           THEN Rejected(r, CtlGate(r, FALSE))
           ELSE /\ IF gid \notin GuildIds
                   THEN Reply(r, 404, "Guild not found", <<>>, voice_clients, NoLevel)
                   ELSE IF i = 0
                   THEN Reply(r, 200, "", <<>>, voice_clients, NoLevel)
                   ELSE Reply(r, 200, "",
                              IF is_playing(voice_clients[i]) THEN <<"stop">> ELSE <<>>,
                              SetAt(voice_clients, i, stop_effect(voice_clients[i])), NoLevel)
                /\ UNCHANGED ProcessWide
        /\ UNCHANGED gw

(***************************************************************************)
(* SetVolume (lines 356-366).  The gain is kept in percent: the code       *)
(* stores level / 100.0 and returns level.                                 *)
(***************************************************************************)
Max(a, b) == IF a >= b THEN a ELSE b
Min(a, b) == IF a <= b THEN a ELSE b
MaxVolume == 200
\* a variant that forgets the upper bound
ClampBelowOnly(level) == Max(0, level)
ClampLevel(level) == Max(0, Min(level, MaxVolume))

ctl_volume(D) ==
    /\ last = Idle
    /\ \E key \in D.keys, payload \in D.payloads, gid \in D.gid, level \in D.levels :
        LET r == [Req("volume", key, payload, 0, 0, gid) EXCEPT !.level = level]
            i == IdxOfGuild(voice_clients, gid)
        IN
        /\ IF CtlGate(r, TRUE) # 200
           THEN Rejected(r, CtlGate(r, TRUE))
           ELSE /\ IF NoClient(gid)
                   THEN Reply(r, 400, "No voice client for guild", <<>>, voice_clients, NoLevel)
                   ELSE IF ~HasSource(voice_clients[i]) \/ ~IsVolumeTransformer(voice_clients[i])
                   THEN Reply(r, 400, "Current source not adjustable", <<>>, voice_clients, NoLevel)
                   ELSE Reply(r, 200, "", <<>>,
                              SetAt(voice_clients, i,
                                    [voice_clients[i] EXCEPT !.player.vol = ClampLevel(level)]),
                              ClampLevel(level))
                /\ UNCHANGED ProcessWide
        /\ UNCHANGED gw

(***************************************************************************)
(* PlaySfx (lines 368-391).  str.lower() is modelled on the names offered. *)
(***************************************************************************)
_SFX_TO_FILE == {"ouch", "flashbang", "who", "real", "like", "eww", "moment"}
Lower(name) ==
    CASE name = "OUCH" -> "ouch"
      [] name = "Who" -> "who"
      [] name = "DoesNotExist" -> "doesnotexist"
      [] name = "Alloy" -> "alloy"
      [] name = "PIRATE" -> "pirate"
      [] OTHER -> name

\* a variant that looks the name up only when it opens the file, after the
\* voice handle has been ensured
ctl_sfx_unchecked(D) ==
    /\ last = Idle
    /\ \E key \in D.keys, payload \in D.payloads, vcid \in D.vc, name \in D.names :
        LET r == [Req("sfx", key, payload, vcid, 0, 0) EXCEPT !.name = name] IN
        /\ IF CtlGate(r, TRUE) # 200
           THEN Rejected(r, CtlGate(r, TRUE))
           ELSE /\ HasFree(D)
                /\ _ensure_vc_for_channel(LowestFree(D), r, <<>>)
                /\ UNCHANGED ProcessWide
        /\ UNCHANGED gw

ctl_sfx(D) ==
    /\ last = Idle
    /\ \E key \in D.keys, payload \in D.payloads, vcid \in D.vc, name \in D.names :
        LET r == [Req("sfx", key, payload, vcid, 0, 0) EXCEPT !.name = name] IN
        /\ IF CtlGate(r, TRUE) # 200
           THEN Rejected(r, CtlGate(r, TRUE))
           ELSE /\ HasFree(D)
                /\ IF Lower(name) \notin _SFX_TO_FILE
                   THEN Done(LowestFree(D), r, 400, "Unknown sfx", "", <<>>, voice_clients)
                   ELSE _ensure_vc_for_channel(LowestFree(D), r, <<>>)
                /\ UNCHANGED ProcessWide
        /\ UNCHANGED gw

ctl_speak(D) ==
    /\ last = Idle
    /\ \E key \in D.keys, payload \in D.payloads, vcid \in D.vc, text \in D.texts :
        LET r == [Req("speak", key, payload, vcid, 0, 0) EXCEPT !.text = text] IN
        /\ IF CtlGate(r, TRUE) # 200
           THEN Rejected(r, CtlGate(r, TRUE))
           ELSE /\ HasFree(D)
                /\ _ensure_vc_for_channel(LowestFree(D), r, <<>>)
                /\ UNCHANGED ProcessWide
        /\ UNCHANGED gw

\* the audio ends by itself: the player thread finishes, vc.source stays bound
AudioEnds ==
    /\ last = Idle
    /\ \E i \in 1..Len(voice_clients) :
        /\ is_playing(voice_clients[i])
        /\ voice_clients' = SetAt(voice_clients, i,
                                  [voice_clients[i] EXCEPT !.player.st = "ended"])
    /\ UNCHANGED <<reqs, last, ProcessWide, gw>>

(***************************************************************************)
(* Text routes: Say, EquipmentCheck and its sound-off variant.             *)
(***************************************************************************)
ctl_ping ==
    /\ last = Idle
    /\ Reply(Req("ping", NoHeader, "valid", 0, 0, 0), 200, "", <<>>, voice_clients, NoLevel)
    /\ UNCHANGED <<ProcessWide, gw>>

\* _send_text (lines 248-252) followed by the return; ch.send may raise
\* (no permission, Discord API error), which nothing catches
ctl_say(D) ==
    /\ last = Idle
    /\ \E key \in D.keys, payload \in D.payloads, tcid \in D.tc, delivered \in BOOLEAN :
        LET r == Req("say", key, payload, 0, tcid, 0) IN
        /\ IF CtlGate(r, TRUE) # 200
           THEN Rejected(r, CtlGate(r, TRUE))
           ELSE /\ IF ~ChannelExists(tcid)
                   THEN Reply(r, 404, "Text channel not found", <<>>, voice_clients, NoLevel)
                   ELSE IF ~delivered
                   THEN Reply(r, 500, "Internal Server Error", <<"send:message">>,
                              voice_clients, NoLevel)
                   ELSE Reply(r, 200, "", <<"send:message">>, voice_clients, NoLevel)
                /\ UNCHANGED ProcessWide
        /\ UNCHANGED gw

ctl_equipmentcheck(D) ==
    /\ last = Idle
    /\ \E key \in D.keys, payload \in D.payloads, tcid \in D.tc :
        LET r == Req("equipmentcheck", key, payload, 0, tcid, 0) IN
        /\ IF CtlGate(r, TRUE) # 200
           THEN Rejected(r, CtlGate(r, TRUE))
           ELSE /\ HasFree(D)
                /\ Wait(LowestFree(D), [r EXCEPT !.pc = "ai_chat"], <<"ai_chat">>, voice_clients)
                /\ UNCHANGED ProcessWide
        /\ UNCHANGED gw

ctl_equipmentcheck_soundoff(D) ==
    /\ last = Idle
    /\ \E key \in D.keys, payload \in D.payloads, tcid \in D.tc, vcid \in D.svc,
          text \in D.texts :
        LET r == [Req("soundoff", key, payload, vcid, tcid, 0) EXCEPT !.text = text] IN
        /\ IF CtlGate(r, TRUE) # 200
           THEN Rejected(r, CtlGate(r, TRUE))
           ELSE /\ HasFree(D)
                /\ Wait(LowestFree(D), [r EXCEPT !.pc = "ai_chat"], <<"ai_chat">>, voice_clients)
                /\ UNCHANGED ProcessWide
        /\ UNCHANGED gw

\* a variant without the except clause: a failure of ai_chat propagates
ChatDone_propagates(s) ==
    /\ last = Idle
    /\ reqs[s].pc = "ai_chat"
    /\ \E completed \in BOOLEAN, delivered \in BOOLEAN :
        LET r    == [reqs[s] EXCEPT !.skit = IF completed THEN "skit" ELSE "fallback"]
            send == <<"send:skit">>
        IN  IF ~completed
            THEN Done(s, r, 500, "Internal Server Error", "ai_chat", <<>>, voice_clients)
            ELSE IF ~ChannelExists(r.tcid)
            THEN Done(s, r, 404, "Text channel not found", "", <<>>, voice_clients)
            ELSE IF ~delivered
            THEN Done(s, r, 500, "Internal Server Error", "send", send, voice_clients)
            ELSE IF r.cmd = "equipmentcheck"
            THEN Done(s, r, 200, "", "", send, voice_clients)
            ELSE Wait(s, [r EXCEPT !.pc = "send"], send, voice_clients)
    /\ UNCHANGED <<ProcessWide, gw>>

\* await ai_chat(...) returns or raises (lines 414-419 and 428-433); the text,
\* the fallback if it raised, is sent with _send_text, whose ch.send may
\* raise in turn
ChatDone(s) ==
    /\ last = Idle
    /\ reqs[s].pc = "ai_chat"
    /\ \E completed \in BOOLEAN, delivered \in BOOLEAN :
        LET r    == [reqs[s] EXCEPT !.skit = IF completed THEN "skit" ELSE "fallback"]
            send == IF completed THEN <<"send:skit">> ELSE <<"send:fallback">>
        IN  IF ~ChannelExists(r.tcid)
            THEN Done(s, r, 404, "Text channel not found", "", <<>>, voice_clients)
            ELSE IF ~delivered
            THEN Done(s, r, 500, "Internal Server Error", "send", send, voice_clients)
            ELSE IF r.cmd = "equipmentcheck"
            THEN Done(s, r, 200, "", "", send, voice_clients)
            ELSE Wait(s, [r EXCEPT !.pc = "send"], send, voice_clients)
    /\ UNCHANGED <<ProcessWide, gw>>

\* ctl_equipmentcheck_soundoff after await _send_text(...) (lines 435-444)
SendDone(s) ==
    /\ last = Idle
    /\ reqs[s].pc = "send"
    /\ IF reqs[s].vcid # NoChannel
       THEN _ensure_vc_for_channel(s, reqs[s], <<>>)
       ELSE Done(s, reqs[s], 200, "", "", <<>>, voice_clients)
    /\ UNCHANGED <<ProcessWide, gw>>

(***************************************************************************)
(* Memory, persona and voice routes (lines 446-472).                       *)
(***************************************************************************)
ToStr(n) == IF n = 7 THEN "7" ELSE "8"               \* str(user_id)
PERSONAS == {"default", "pirate"}                    \* keys of the persona table
AllowedVoices == {"alloy", "ash", "ballad", "coral", "echo", "sage", "shimmer", "verse"}

ctl_resetmemory(D) ==
    /\ last = Idle
    /\ \E key \in D.keys, payload \in D.payloads, cid \in D.ckeys :
        LET r == Req("resetmemory", key, payload, 0, cid, 0) IN
        /\ IF CtlGate(r, FALSE) # 200
           THEN Rejected(r, CtlGate(r, FALSE))
           ELSE /\ Reply(r, 200, "", <<>>, voice_clients, NoLevel)
                /\ channel_history' = [c \in DOMAIN channel_history \ {cid} |-> channel_history[c]]
                /\ UNCHANGED <<TTS_VOICE, active_persona, conversation_memory>>
        /\ UNCHANGED gw

\* a variant that creates the user's entry when there is none (setdefault)
ctl_forget_creates(D) ==
    /\ last = Idle
    /\ \E key \in D.keys, payload \in D.payloads, uid \in D.users :
        LET r == Req("forget", key, payload, 0, 0, uid) IN
        /\ IF CtlGate(r, FALSE) # 200
           THEN Rejected(r, CtlGate(r, FALSE))
           ELSE /\ Reply(r, 200, "", <<>>, voice_clients, NoLevel)
                /\ conversation_memory' =
                      [k \in DOMAIN conversation_memory \cup {ToStr(uid)} |->
                          IF k = ToStr(uid) THEN <<>> ELSE conversation_memory[k]]
                /\ UNCHANGED <<TTS_VOICE, active_persona, channel_history>>
        /\ UNCHANGED gw

ctl_forget(D) ==
    /\ last = Idle
    /\ \E key \in D.keys, payload \in D.payloads, uid \in D.users :
        LET r == Req("forget", key, payload, 0, 0, uid) IN
        /\ IF CtlGate(r, FALSE) # 200
           THEN Rejected(r, CtlGate(r, FALSE))
           ELSE /\ Reply(r, 200, "", <<>>, voice_clients, NoLevel)
                /\ conversation_memory' =
                      IF ToStr(uid) \in DOMAIN conversation_memory
                      THEN [conversation_memory EXCEPT ![ToStr(uid)] = <<>>]
                      ELSE conversation_memory
                /\ UNCHANGED <<TTS_VOICE, active_persona, channel_history>>
        /\ UNCHANGED gw

ctl_persona(D) ==
    /\ last = Idle
    /\ \E key \in D.keys, payload \in D.payloads, mode \in D.modes :
        LET r == [Req("persona", key, payload, 0, 0, 0) EXCEPT !.name = mode] IN
        /\ IF CtlGate(r, TRUE) # 200
           THEN Rejected(r, CtlGate(r, TRUE))
           ELSE /\ IF Lower(mode) \notin PERSONAS
                   THEN /\ Reply(r, 400, "Invalid persona. Available: default, pirate",
                                 <<>>, voice_clients, NoLevel)
                        /\ UNCHANGED active_persona
                   ELSE /\ Reply(r, 200, "", <<>>, voice_clients, NoLevel)
                        /\ active_persona' = Lower(mode)
                /\ UNCHANGED <<TTS_VOICE, channel_history, conversation_memory>>
        /\ UNCHANGED gw

\* a variant that assigns the voice before it validates the name
ctl_voice_assigns_first(D) ==
    /\ last = Idle
    /\ \E key \in D.keys, payload \in D.payloads, name \in D.voices :
        LET r == [Req("voice", key, payload, 0, 0, 0) EXCEPT !.name = name] IN
        /\ IF CtlGate(r, TRUE) # 200
           THEN Rejected(r, CtlGate(r, TRUE))
           ELSE /\ IF Lower(name) \notin AllowedVoices
                   THEN Reply(r, 400, "Unknown voice. Try: alloy, ash, ballad, coral, echo, sage, shimmer, verse",
                              <<>>, voice_clients, NoLevel)
                   ELSE Reply(r, 200, "", <<>>, voice_clients, NoLevel)
                /\ TTS_VOICE' = Lower(name)
                /\ UNCHANGED <<active_persona, channel_history, conversation_memory>>
        /\ UNCHANGED gw

ctl_voice(D) ==
    /\ last = Idle
    /\ \E key \in D.keys, payload \in D.payloads, name \in D.voices :
        LET r == [Req("voice", key, payload, 0, 0, 0) EXCEPT !.name = name] IN
        /\ IF CtlGate(r, TRUE) # 200
           THEN Rejected(r, CtlGate(r, TRUE))
           ELSE /\ IF Lower(name) \notin AllowedVoices
                   THEN /\ Reply(r, 400, "Unknown voice. Try: alloy, ash, ballad, coral, echo, sage, shimmer, verse",
                                 <<>>, voice_clients, NoLevel)
                        /\ UNCHANGED TTS_VOICE
                   ELSE /\ Reply(r, 200, "", <<>>, voice_clients, NoLevel)
                        /\ TTS_VOICE' = Lower(name)
                /\ UNCHANGED <<active_persona, channel_history, conversation_memory>>
        /\ UNCHANGED gw

\* the bot's chat handlers (outside this file) record an exchange
Chat(D) ==
    /\ last = Idle
    /\ \/ \E c \in D.ckeys :
            /\ c \notin DOMAIN channel_history
            /\ channel_history' = [k \in DOMAIN channel_history \cup {c} |->
                                      IF k = c THEN <<"m">> ELSE channel_history[k]]
            /\ UNCHANGED conversation_memory
       \/ \E u \in D.users :
            /\ IF ToStr(u) \in DOMAIN conversation_memory
               THEN conversation_memory[ToStr(u)] = <<>>
               ELSE TRUE
            /\ conversation_memory' = [k \in DOMAIN conversation_memory \cup {ToStr(u)} |->
                                          IF k = ToStr(u) THEN <<"m">> ELSE conversation_memory[k]]
            /\ UNCHANGED channel_history
    /\ UNCHANGED <<voice_clients, reqs, last, TTS_VOICE, active_persona, gw>>

\* the turn is over: the loop takes the next ready handler
EndTurn ==
    /\ last # Idle
    /\ last' = Idle
    /\ UNCHANGED <<voice_clients, reqs, ProcessWide, gw>>

(***************************************************************************)
(* The Controller.  Spec: the voice and playback routes on one guild with  *)
(* two voice channels, two handlers in flight.                             *)
(***************************************************************************)
InitGw == [route |-> "none", key |-> NoHeader, payload |-> "valid", upstream |-> "none",
           forwarded |-> FALSE, status |-> 0, detail |-> ""]

Init ==
    /\ voice_clients = <<>>
    /\ reqs = [s \in Slots |-> Free]
    /\ last = Idle
    /\ TTS_VOICE = "alloy"
    /\ active_persona = "default"
    /\ channel_history = <<>>
    /\ conversation_memory = <<>>
    /\ gw = InitGw

VoiceD ==
    [slots |-> Slots, keys |-> {BOT_CONTROL_KEY}, payloads |-> {"valid"},
     vc |-> {11, 12, 13}, svc |-> {NoChannel, 11}, gid |-> {1, 9}, tc |-> {13},
     levels |-> {-10, 75, 201, 9999},
     names |-> {"OUCH", "doesnotexist", "DoesNotExist"},
     modes |-> {"default"}, voices |-> {"echo"}, ckeys |-> {13}, users |-> {7},
     texts |-> {1}]

Completions ==
    \/ \E s \in Slots : MoveDone(s)
    \/ \E s \in Slots : ConnectDone(s)
    \/ \E s \in Slots : ConnectFail(s)
    \/ \E s \in Slots : DisconnectDone(s)
    \/ \E s \in Slots : TtsDone(s)
    \/ \E s \in Slots : ChatDone(s)
    \/ \E s \in Slots : SendDone(s)

Next ==
    \/ ctl_join(VoiceD)
    \/ ctl_leave(VoiceD)
    \/ ctl_playyt(VoiceD)
    \/ ctl_pause(VoiceD)
    \/ ctl_resume(VoiceD)
    \/ ctl_skip(VoiceD)
    \/ ctl_stop(VoiceD)
    \/ ctl_volume(VoiceD)
    \/ ctl_sfx(VoiceD)
    \/ ctl_speak(VoiceD)
    \/ ctl_equipmentcheck_soundoff(VoiceD)
    \/ Completions
    \/ AudioEnds
    \/ EndTurn

Spec == Init /\ [][Next]_vars

(***************************************************************************)
(* SpecAuth: every Controller route, offered every kind of key and         *)
(* payload, one guild with one voice channel, one handler in flight.       *)
(***************************************************************************)
AuthD ==
    [slots |-> {1}, keys |-> {BOT_CONTROL_KEY, "wrong", NoHeader},
     payloads |-> {"valid", "invalid", "malformed"},
     vc |-> {11, 12}, svc |-> {11}, gid |-> {1}, tc |-> {13},
     levels |-> {75}, names |-> {"OUCH"},
     modes |-> {"PIRATE"}, voices |-> {"echo"}, ckeys |-> {13}, users |-> {7},
     texts |-> {1}]

NextAuth ==
    \/ ctl_ping
    \/ ctl_say(AuthD)
    \/ ctl_join(AuthD)
    \/ ctl_leave(AuthD)
    \/ ctl_playyt(AuthD)
    \/ ctl_pause(AuthD)
    \/ ctl_resume(AuthD)
    \/ ctl_skip(AuthD)
    \/ ctl_stop(AuthD)
    \/ ctl_volume(AuthD)
    \/ ctl_sfx(AuthD)
    \/ ctl_speak(AuthD)
    \/ ctl_equipmentcheck(AuthD)
    \/ ctl_equipmentcheck_soundoff(AuthD)
    \/ ctl_resetmemory(AuthD)
    \/ ctl_forget(AuthD)
    \/ ctl_persona(AuthD)
    \/ ctl_voice(AuthD)
    \/ Completions
    \/ AudioEnds
    \/ Chat(AuthD)
    \/ EndTurn

SpecAuth == Init /\ [][NextAuth]_vars

(***************************************************************************)
(* SpecSettings: the text routes and the persona, voice and memory routes  *)
(* beside Speak and the sound-off, with valid and invalid names, a text    *)
(* channel that exists and one that does not, two channels and two users   *)
(* of the memory maps.                                                     *)
(***************************************************************************)
SettingsD ==
    [slots |-> {1}, keys |-> {BOT_CONTROL_KEY}, payloads |-> {"valid"},
     vc |-> {11}, svc |-> {NoChannel, 11}, gid |-> {1}, tc |-> {13, 99},
     levels |-> {75}, names |-> {"OUCH"},
     modes |-> {"PIRATE", "default", "nope"}, voices |-> {"Alloy", "echo", "nope"},
     ckeys |-> {13, 14}, users |-> {7, 8}, texts |-> {1}]

NextSettings ==
    \/ ctl_persona(SettingsD)
    \/ ctl_voice(SettingsD)
    \/ ctl_resetmemory(SettingsD)
    \/ ctl_forget(SettingsD)
    \/ Chat(SettingsD)
    \/ ctl_speak(SettingsD)
    \/ ctl_say(SettingsD)
    \/ ctl_equipmentcheck(SettingsD)
    \/ ctl_equipmentcheck_soundoff(SettingsD)
    \/ \E s \in Slots : ConnectDone(s)
    \/ \E s \in Slots : ConnectFail(s)
    \/ \E s \in Slots : TtsDone(s)
    \/ \E s \in Slots : ChatDone(s)
    \/ \E s \in Slots : SendDone(s)
    \/ AudioEnds
    \/ EndTurn

SpecSettings == Init /\ [][NextSettings]_vars

(***************************************************************************)
(* SpecGuilds: two guilds with one voice channel each, two handlers in     *)
(* flight: JoinVoice, PlayMedia with and without a target, Speak with two  *)
(* texts.                                                                  *)
(***************************************************************************)
GuildsD ==
    [slots |-> Slots, keys |-> {BOT_CONTROL_KEY}, payloads |-> {"valid"},
     vc |-> {11, 21}, svc |-> {NoChannel}, gid |-> {1, 2}, tc |-> {13},
     levels |-> {75}, names |-> {"OUCH"},
     modes |-> {"default"}, voices |-> {"echo"}, ckeys |-> {13}, users |-> {7},
     texts |-> {1, 2}]

NextGuilds ==
    \/ ctl_join(GuildsD)
    \/ ctl_playyt(GuildsD)
    \/ ctl_speak(GuildsD)
    \/ \E s \in Slots : ConnectDone(s)
    \/ \E s \in Slots : ConnectFail(s)
    \/ \E s \in Slots : TtsDone(s)
    \/ AudioEnds
    \/ EndTurn

SpecGuilds == Init /\ [][NextGuilds]_vars

(***************************************************************************)
(* EquipmentCheckSoundOff with every voice destination (none, a voice      *)
(* channel, a text channel) and a LeaveVoice that may run while it is      *)
(* suspended.                                                              *)
(***************************************************************************)
SoundOffD ==
    [slots |-> Slots, keys |-> {BOT_CONTROL_KEY}, payloads |-> {"valid"},
     vc |-> {11}, svc |-> {NoChannel, 11, 13}, gid |-> {1}, tc |-> {13, 99},
     levels |-> {75}, names |-> {"OUCH"},
     modes |-> {"default"}, voices |-> {"echo"}, ckeys |-> {13}, users |-> {7},
     texts |-> {1}]

NextSoundOff ==
    \/ ctl_equipmentcheck_soundoff(SoundOffD)
    \/ ctl_leave(SoundOffD)
    \/ \E s \in Slots : ChatDone(s)
    \/ \E s \in Slots : SendDone(s)
    \/ \E s \in Slots : ConnectDone(s)
    \/ \E s \in Slots : ConnectFail(s)
    \/ \E s \in Slots : TtsDone(s)
    \/ \E s \in Slots : DisconnectDone(s)
    \/ AudioEnds
    \/ EndTurn

SpecSoundOff == Init /\ [][NextSoundOff]_vars

(***************************************************************************)
(* PlayMedia commands for two urls that may run together in one guild:     *)
(* both can be suspended in _ensure_vc_for_channel (connect or move_to)    *)
(* and resume in either order.                                             *)
(***************************************************************************)
PlayD ==
    [slots |-> Slots, keys |-> {BOT_CONTROL_KEY}, payloads |-> {"valid"},
     vc |-> {11, 12}, svc |-> {NoChannel}, gid |-> {1}, tc |-> {13},
     levels |-> {75}, names |-> {"OUCH"},
     modes |-> {"default"}, voices |-> {"echo"}, ckeys |-> {13}, users |-> {7},
     texts |-> {1, 2}]

NextPlay ==
    \/ ctl_join(PlayD)
    \/ ctl_playyt(PlayD)
    \/ ctl_pause(PlayD)
    \/ \E s \in Slots : MoveDone(s)
    \/ \E s \in Slots : ConnectDone(s)
    \/ \E s \in Slots : ConnectFail(s)
    \/ AudioEnds
    \/ EndTurn

SpecPlay == Init /\ [][NextPlay]_vars

(***************************************************************************)
(* The Gateway (panel_api, lines 31-166).  It holds no session state: gw   *)
(* records its last exchange.  upstream is what the forwarded request      *)
(* meets: a Controller response, or a transport failure of the httpx call. *)
(***************************************************************************)
\* require_api_key, the dependency of every route but /api/ping
require_api_key(key) == key = PANEL_API_KEY

ExternalKeys == {PANEL_API_KEY, BOT_CONTROL_KEY, "wrong", NoHeader}
Payloads == {"valid", "invalid", "malformed"}
CtlStatuses == {200, 400, 401, 404, 422, 500}      \* what the Controller answers
TransportFailures == {"unreachable", "timeout"}    \* httpx raises
Upstreams == {[kind |-> "response", status |-> st] : st \in CtlStatuses}
             \cup {[kind |-> k, status |-> 0] : k \in TransportFailures}

\* forward (lines 78-89): the outcome of the call as the caller sees it.
\* A transport failure is an httpx exception, which forward does not catch.
forward(up) ==
    IF up.kind \in TransportFailures
    THEN [raised |-> "httpx", status |-> 0, detail |-> up.kind]
    ELSE IF up.status >= 400
    THEN [raised |-> "HTTPException", status |-> up.status, detail |-> "detail"]
    ELSE [raised |-> "", status |-> 200, detail |-> ""]

\* a command route: return await forward(...).  An exception that is not an
\* HTTPException leaves the route unhandled: 500 Internal Server Error
api_command(route, hasBody) ==
    \E key \in ExternalKeys, payload \in Payloads, up \in Upstreams :
        LET g == Gate(hasBody, require_api_key(key), payload)
            f == forward(up)
        IN
        /\ gw' = IF g # 200
                 THEN [route |-> route, key |-> key, payload |-> payload,
                       upstream |-> "none", forwarded |-> FALSE, status |-> g,
                       detail |-> IF g = 401 THEN "Unauthorized" ELSE "validation error"]
                 ELSE [route |-> route, key |-> key, payload |-> payload,
                       upstream |-> IF up.kind = "response" THEN "response" ELSE up.kind,
                       forwarded |-> TRUE,
                       status |-> IF f.raised = "httpx" THEN 500 ELSE f.status,
                       detail |-> IF f.raised = "httpx" THEN "Internal Server Error"
                                  ELSE f.detail]
        /\ UNCHANGED <<voice_clients, reqs, last, ProcessWide>>

\* ping (lines 91-98): no key; every exception of forward becomes 503
ping ==
    \E up \in Upstreams :
        LET f == forward(up) IN
        /\ gw' = [route |-> "ping", key |-> NoHeader, payload |-> "valid",
                  upstream |-> IF up.kind = "response" THEN "response" ELSE up.kind,
                  forwarded |-> TRUE,
                  status |-> IF f.raised # "" THEN 503 ELSE 200,
                  detail |-> IF f.raised # "" THEN "Bot control unreachable" ELSE ""]
        /\ UNCHANGED <<voice_clients, reqs, last, ProcessWide>>

say == api_command("say", TRUE)
join == api_command("join", TRUE)
leave == api_command("leave", TRUE)
playyt == api_command("playyt", TRUE)
pause == api_command("pause", FALSE)
resume == api_command("resume", FALSE)
skip == api_command("skip", FALSE)
stop == api_command("stop", FALSE)
volume == api_command("volume", TRUE)
sfx == api_command("sfx", TRUE)
speak == api_command("speak", TRUE)
equipmentcheck == api_command("equipmentcheck", TRUE)
equipmentcheck_soundoff == api_command("equipmentcheck/soundoff", TRUE)
resetmemory == api_command("resetmemory", FALSE)
forget == api_command("forget", FALSE)
persona == api_command("persona", TRUE)
voice == api_command("voice", TRUE)

NextGateway ==
    \/ ping
    \/ say
    \/ join
    \/ leave
    \/ playyt
    \/ pause
    \/ resume
    \/ skip
    \/ stop
    \/ volume
    \/ sfx
    \/ speak
    \/ equipmentcheck
    \/ equipmentcheck_soundoff
    \/ resetmemory
    \/ forget
    \/ persona
    \/ voice

SpecGateway == Init /\ [][NextGateway]_vars

(***************************************************************************)
(* Vocabulary of the properties.                                           *)
(***************************************************************************)
\* a turn of the Controller: a handler ran from its start or from an await
Turn == last = Idle /\ last' # Idle

\* the turn is the first one of a handler of cmd (no suspended handler moved)
Starts(cmd) ==
    /\ Turn
    /\ last'.req.cmd = cmd
    /\ \A s \in Slots : reqs[s] = Free \/ reqs'[s] = reqs[s]

\* the request of the turn passed the key check and the schema
Accepted == last'.req.key = BOT_CONTROL_KEY /\ last'.req.payload = "valid"

PlaybackControls == {"pause", "resume", "skip", "stop"}

\* every handle keeps its source and status over the step; a handle that
\* appears or disappears has none
PlaybackKept ==
    /\ \A i \in 1..Len(voice_clients') :
          LET j == IdxOfId(voice_clients, voice_clients'[i].id) IN
          IF j # 0 THEN voice_clients'[i].player = voice_clients[j].player
                   ELSE voice_clients'[i].player = NoPlayer
    /\ \A j \in 1..Len(voice_clients) :
          IdxOfId(voice_clients', voice_clients[j].id) = 0
              => voice_clients[j].player = NoPlayer

(***************************************************************************)
(* Gateway.                                                                *)
(***************************************************************************)
\* C1: on every Gateway command route (every /api route but /api/ping) a
\* request whose X-API-Key is missing or differs from the configured key is
\* answered 401 whether or not its payload is valid, and nothing is
\* forwarded to the Controller for it.
C1_UnauthorizedWhateverThePayload ==
    (gw.route \notin {"none", "ping"} /\ ~require_api_key(gw.key))
        => (gw.status = 401 /\ ~gw.forwarded)

\* C3: on every Gateway route that forwards, a transport failure of the
\* forward (Controller unreachable, timeout) is answered 503, a status the
\* Controller itself never produces.
C3_TransportFailureIs503 ==
    (gw.forwarded /\ gw.upstream \in TransportFailures)
        => (gw.status = 503 /\ 503 \notin CtlStatuses)

(***************************************************************************)
(* Controller: authentication.                                             *)
(***************************************************************************)
\* C2: on every Controller route but /ctl/ping a request whose
\* X-Internal-Key is missing or differs from the secret is answered 401
\* before any handler logic: registry, playback, memory, persona and voice
\* are unchanged and nothing is sent.
C2_UnauthorizedBeforeHandler ==
    [][(Turn /\ last'.req.cmd # "ping" /\ ~require_internal_key(last'.req.key))
          => /\ last'.status = 401
             /\ last'.calls = <<>>
             /\ UNCHANGED <<voice_clients, reqs, ProcessWide>>]_vars

(***************************************************************************)
(* Controller: voice handles.                                              *)
(***************************************************************************)
AtMostOneHandlePerGuild ==
    \A i, j \in 1..Len(voice_clients) :
        voice_clients[i].guild = voice_clients[j].guild => i = j

\* an accepted JoinVoice starts while its guild's handle is connected, on
\* the requested destination (same) or on another one (~same)
JoinMeets(same) ==
    /\ Starts("join")
    /\ Accepted
    /\ last'.req.vcid \in VoiceChannelIds
    /\ LET i == IdxOfGuild(voice_clients, GuildOf(last'.req.vcid)) IN
         /\ i # 0
         /\ is_connected(voice_clients[i])
         /\ (voice_clients[i].channel = last'.req.vcid) <=> same

\* the move a JoinVoice awaited has returned and the command succeeded
JoinMoved ==
    /\ Turn
    /\ last'.req.cmd = "join"
    /\ last'.req.pc = "move_to"
    /\ last'.status = 200

\* C4: in every reachable state, whatever the interleaving of JoinVoice,
\* LeaveVoice, PlayMedia, PlaySfx, Speak and EquipmentCheckSoundOff (two
\* commands of one guild in flight with no handle yet included), a guild
\* has at most one voice handle; a JoinVoice for another destination of the
\* guild moves the existing handle and registers no second one.
C4_OneHandlePerGuild ==
    /\ []AtMostOneHandlePerGuild
    /\ [][JoinMeets(FALSE)
            => (last'.calls = <<"move_to">> /\ voice_clients' = voice_clients)]_vars
    /\ [][JoinMoved
            => /\ Len(voice_clients') = Len(voice_clients)
               /\ \E i \in 1..Len(voice_clients') :
                    /\ voice_clients'[i].id = last'.req.h
                    /\ voice_clients'[i].channel = last'.req.vcid]_vars

\* two commands of one guild were in flight with no handle yet: the second
\* connect was refused, the first is still awaited, one handle is registered
C4_Witness ==
    /\ last.failed = "connect"
    /\ last.detail = "Already connected to a voice channel."
    /\ Len(voice_clients) = 1
    /\ \E s \in Slots :
          /\ reqs[s].pc = "connect"
          /\ GuildOf(reqs[s].vcid) = GuildOf(last.req.vcid)

\* C5: JoinVoice for the destination the guild's handle is already
\* connected to returns success, issues neither connect nor move, and
\* leaves the handle (destination, source, playing/paused) unchanged.
C5_JoinIdempotent ==
    [][JoinMeets(TRUE)
         => /\ last'.status = 200
            /\ last'.calls = <<>>
            /\ voice_clients' = voice_clients]_vars

\* a JoinVoice answered in its first turn for a handle holding a paused source
C5_Witness ==
    /\ last.req.cmd = "join"
    /\ last.req.pc = "start"
    /\ last.status = 200
    /\ \E i \in 1..Len(voice_clients) :
          /\ voice_clients[i].id = last.req.h
          /\ voice_clients[i].channel = last.req.vcid
          /\ is_paused(voice_clients[i])

(***************************************************************************)
(* Controller: playback controls.                                          *)
(***************************************************************************)
PlaybackState(h) ==
    IF is_playing(h) THEN "Playing"
    ELSE IF is_paused(h) THEN "Paused"
    ELSE "Connected"

\* the transition relation the four controls are to follow
Transition(cmd, st) ==
    CASE cmd = "pause"  -> IF st = "Playing" THEN "Paused" ELSE st
      [] cmd = "resume" -> IF st = "Paused" THEN "Playing" ELSE st
      [] cmd = "stop"   -> IF st = "Playing" THEN "Connected" ELSE st
      [] cmd = "skip"   -> IF st \in {"Playing", "Paused"} THEN "Connected" ELSE st

ControlFollows(cmd) ==
    LET i == IdxOfGuild(voice_clients, last'.req.gid) IN
    (Starts(cmd) /\ Accepted /\ i # 0 /\ is_connected(voice_clients[i]))
        => /\ last'.status = 200
           /\ Len(voice_clients') = Len(voice_clients)
           /\ \A j \in 1..Len(voice_clients) : j # i => voice_clients'[j] = voice_clients[j]
           /\ PlaybackState(voice_clients'[i])
                 = Transition(cmd, PlaybackState(voice_clients[i]))
           /\ PlaybackState(voice_clients'[i]) = PlaybackState(voice_clients[i])
                 => voice_clients'[i] = voice_clients[i]
           /\ [voice_clients'[i] EXCEPT !.player = NoPlayer]
                 = [voice_clients[i] EXCEPT !.player = NoPlayer]

AppliedTwiceIsOnce ==
    \A i \in 1..Len(voice_clients) :
        LET h == voice_clients[i] IN
        /\ pause_effect(pause_effect(h)) = pause_effect(h)
        /\ resume_effect(resume_effect(h)) = resume_effect(h)
        /\ stop_effect(stop_effect(h)) = stop_effect(h)
        /\ skip_effect(skip_effect(h)) = skip_effect(h)

\* C6: for a guild with a connected handle, Pause changes state only when
\* Playing (to Paused), Resume only when Paused (to Playing), Stop only when
\* Playing (to idle Connected: a Paused handle stays Paused), Skip when
\* Playing or Paused (to idle Connected); otherwise the command succeeds and
\* changes nothing, so applying one twice gives what applying it once gives.
C6_PlaybackControls ==
    /\ [][\A cmd \in PlaybackControls : ControlFollows(cmd)]_vars
    /\ []AppliedTwiceIsOnce

\* Stop answered for a connected handle whose source is paused, still paused
C6_Witness ==
    /\ last.req.cmd = "stop"
    /\ last.status = 200
    /\ \E i \in 1..Len(voice_clients) :
          /\ voice_clients[i].guild = last.req.gid
          /\ is_connected(voice_clients[i])
          /\ is_paused(voice_clients[i])

\* C7: each of Pause, Resume, Skip and Stop, called for a guild without a
\* voice handle (guild unknown, or known but without a handle), returns 400
\* and changes no state.
C7_ControlsNeedAHandle ==
    [][\A cmd \in PlaybackControls :
          (Starts(cmd) /\ Accepted /\ NoClient(last'.req.gid))
              => (last'.status = 400 /\ voice_clients' = voice_clients)]_vars

(***************************************************************************)
(* Controller: PlayMedia, SetVolume, PlaySfx.                              *)
(***************************************************************************)
\* C8: when media resolution fails for a PlayMedia command, with or without
\* a target destination, the response is 400 carrying the resolution error
\* text, and no handle's source or playing/paused status is changed by the
\* command.
C8_ResolutionFailure ==
    /\ [][(Turn /\ last'.req.cmd = "playyt" /\ last'.failed = "get_stream")
            => /\ last'.status = 400
               /\ last'.detail = "yt-dlp error"
               /\ PlaybackKept]_vars
    /\ [][(Turn /\ last'.req.cmd = "playyt" /\ last'.status = 0) => PlaybackKept]_vars

\* resolution failed for a command with a target while a source was playing
C8_Witness ==
    /\ last.req.cmd = "playyt"
    /\ last.failed = "get_stream"
    /\ last.req.vcid # NoChannel
    /\ \E i \in 1..Len(voice_clients) :
          /\ voice_clients[i].guild = GuildOf(last.req.vcid)
          /\ is_playing(voice_clients[i])

Clamped(level) == IF level < 0 THEN 0 ELSE IF level > 200 THEN 200 ELSE level

\* C9: SetVolume on a handle with an adjustable source applies
\* min(200, max(0, level)) percent and returns that value (-10 gives 0,
\* 9999 gives 200, 75 gives 75); in every reachable state the gain of an
\* adjustable source is within 0..200 percent, and a source PlayMedia
\* starts has 90 percent.
C9_VolumeClamped ==
    /\ [](\A i \in 1..Len(voice_clients) :
             IsVolumeTransformer(voice_clients[i])
                 => voice_clients[i].player.vol \in 0..200)
    /\ [][LET i == IdxOfGuild(voice_clients, last'.req.gid) IN
          (Starts("volume") /\ Accepted /\ i # 0 /\ IsVolumeTransformer(voice_clients[i]))
              => /\ last'.status = 200
                 /\ last'.level = Clamped(last'.req.level)
                 /\ voice_clients'[i].player.vol = Clamped(last'.req.level)
                 /\ (last'.req.level = 0 - 10 => last'.level = 0)
                 /\ (last'.req.level = 9999 => last'.level = 200)
                 /\ (last'.req.level = 75 => last'.level = 75)]_vars
    /\ [][(Turn /\ last'.req.cmd = "playyt" /\ last'.status = 200)
              => LET i == playyt_locate(last'.req, voice_clients') IN
                 /\ i # 0
                 /\ voice_clients'[i].player.kind = "yt"
                 /\ voice_clients'[i].player.vol = 90
                 /\ voice_clients'[i].player.st = "playing"]_vars

\* SetVolume 9999 answered with 200 and the source's gain is 200
C9_Witness ==
    /\ last.req.cmd = "volume"
    /\ last.req.level = 9999
    /\ last.level = 200
    /\ \E i \in 1..Len(voice_clients) : voice_clients[i].player.vol = 200

\* C10: PlaySfx with a name that, lower-cased, is no key of the effect
\* table returns 400, never a 5xx, before any voice action: no connect, no
\* move, no stop, no play; registry and playback are unchanged.
C10_UnknownSfxRejectedFirst ==
    [][(Starts("sfx") /\ Accepted /\ Lower(last'.req.name) \notin _SFX_TO_FILE)
          => /\ last'.status = 400
             /\ last'.calls = <<>>
             /\ voice_clients' = voice_clients
             /\ reqs' = reqs]_vars

\* an unknown name in mixed case was refused while no handle existed
C10_Witness ==
    /\ last.req.cmd = "sfx"
    /\ last.req.name = "DoesNotExist"
    /\ last.status = 400
    /\ last.req.vcid \in VoiceChannelIds
    /\ voice_clients = <<>>

(***************************************************************************)
(* Controller: persona, voice, memory.                                     *)
(***************************************************************************)
\* the name of a SetPersona / SetVoice request is in the table / allow-set
ValidSetting(cmd) ==
    IF cmd = "persona" THEN Lower(last'.req.name) \in PERSONAS
                       ELSE Lower(last'.req.name) \in AllowedVoices

\* C11: SetPersona / SetVoice with a name outside the persona table / the
\* voice allow-set returns 400 listing the valid names and leaves persona
\* and voice unchanged; with a valid name the process-wide value is
\* replaced in one step, and every synthesis call made afterwards (by a
\* Speak or sound-off that had not reached synthesis) is given the current
\* voice; the values change by no other step.
C11_SettingsAreProcessWide ==
    /\ [][(Starts("persona") /\ Accepted)
            => IF ValidSetting("persona")
               THEN /\ last'.status = 200
                    /\ active_persona' = Lower(last'.req.name)
                    /\ TTS_VOICE' = TTS_VOICE
               ELSE /\ last'.status = 400
                    /\ last'.detail = "Invalid persona. Available: default, pirate"
                    /\ UNCHANGED <<active_persona, TTS_VOICE>>]_vars
    /\ [][(Starts("voice") /\ Accepted)
            => IF ValidSetting("voice")
               THEN /\ last'.status = 200
                    /\ TTS_VOICE' = Lower(last'.req.name)
                    /\ active_persona' = active_persona
               ELSE /\ last'.status = 400
                    /\ last'.detail = "Unknown voice. Try: alloy, ash, ballad, coral, echo, sage, shimmer, verse"
                    /\ UNCHANGED <<active_persona, TTS_VOICE>>]_vars
    /\ [][(Turn /\ last'.status = 0 /\ last'.req.pc = "ai_tts")
            => last'.req.voice = TTS_VOICE]_vars
    /\ [][TTS_VOICE' # TTS_VOICE => (Starts("voice") /\ last'.status = 200)]_vars
    /\ [][active_persona' # active_persona
            => (Starts("persona") /\ last'.status = 200)]_vars

\* SetVoice succeeded with a new voice while a Speak was in flight that had
\* not reached synthesis
C11_Witness ==
    /\ last.req.cmd = "voice"
    /\ last.status = 200
    /\ TTS_VOICE = "echo"
    /\ \E s \in Slots : reqs[s].cmd = "speak" /\ reqs[s].pc = "connect"

\* C12: ResetMemory(channel) and Forget(user) always return success, also
\* for a key without history.  ResetMemory removes exactly that channel's
\* entry; Forget empties that user's history, keeps the entry and creates
\* none.  Other channels, other users and the other map are unchanged.
C12_MemoryFrames ==
    /\ [][(Starts("resetmemory") /\ Accepted)
            => /\ last'.status = 200
               /\ DOMAIN channel_history' = DOMAIN channel_history \ {last'.req.tcid}
               /\ \A c \in DOMAIN channel_history' :
                     channel_history'[c] = channel_history[c]
               /\ conversation_memory' = conversation_memory]_vars
    /\ [][(Starts("forget") /\ Accepted)
            => /\ last'.status = 200
               /\ DOMAIN conversation_memory' = DOMAIN conversation_memory
               /\ \A k \in DOMAIN conversation_memory :
                     conversation_memory'[k]
                        = IF k = ToStr(last'.req.gid) THEN <<>> ELSE conversation_memory[k]
               /\ channel_history' = channel_history]_vars

\* Forget answered for a user without an entry while another user's history
\* and a channel's history are there
C12_Witness ==
    /\ last.req.cmd = "forget"
    /\ last.status = 200
    /\ ToStr(last.req.gid) \notin DOMAIN conversation_memory
    /\ \E k \in DOMAIN conversation_memory : conversation_memory[k] # <<>>
    /\ DOMAIN channel_history # {}

(***************************************************************************)
(* Controller: EquipmentCheck and its sound-off.                           *)
(***************************************************************************)
\* C13: EquipmentCheck degrades instead of failing: when the text-completion
\* helper fails the command still returns success and exactly one message,
\* the fallback text, is sent; the only error an accepted command returns
\* is 404, when the text destination does not exist.
C13_EquipmentCheckDegrades ==
    [][(Turn /\ last'.req.cmd = "equipmentcheck" /\ Accepted /\ last'.status # 0)
          => /\ IF ChannelExists(last'.req.tcid)
                THEN last'.status = 200
                ELSE last'.status = 404
             /\ (last'.req.skit = "fallback" /\ ChannelExists(last'.req.tcid))
                   => last'.calls = <<"send:fallback">>]_vars

\* C13 as amended: a failure of the text-completion helper never fails
\* EquipmentCheck: the fallback text is the one message sent and the answer
\* is success when it is delivered.  An accepted command returns 404 when
\* the text destination does not exist and 500 when the delivery of the
\* message fails, and no other error.
C13_DegradesButDeliveryMayFail ==
    [][(Turn /\ last'.req.cmd = "equipmentcheck" /\ Accepted /\ last'.status # 0)
          => /\ last'.status \in {200, 404, 500}
             /\ last'.status = 404 <=> ~ChannelExists(last'.req.tcid)
             /\ last'.status = 500 <=> last'.failed = "send"
             /\ ChannelExists(last'.req.tcid)
                   => last'.calls = IF last'.req.skit = "fallback"
                                    THEN <<"send:fallback">> ELSE <<"send:skit">>]_vars

\* the helper failed, the fallback was delivered, the answer is success
C13_Witness ==
    /\ last.req.cmd = "equipmentcheck"
    /\ last.req.skit = "fallback"
    /\ last.status = 200
    /\ last.calls = <<"send:fallback">>

(***************************************************************************)
(* Controller: starting audio.                                             *)
(***************************************************************************)
AudioCommands == {"playyt", "sfx", "speak", "soundoff"}

\* the registered position of the handle the turn's command plays on
TargetOf(r, vcs) ==
    IF r.cmd = "playyt" THEN playyt_locate(r, vcs) ELSE IdxOfId(vcs, r.h)

StopThenPlay(calls) ==
    \E k \in 1..(Len(calls) - 1) : calls[k] = "stop" /\ calls[k + 1] = "play"

\* C14: every command that starts audio (PlayMedia, PlaySfx, Speak,
\* EquipmentCheckSoundOff) stops the target handle's current source, be it
\* Playing or Paused, before it starts the new one, so that no earlier
\* source stays alive beside the new one.
C14_StopBeforePlay ==
    [][(/\ Turn
        /\ last'.req.cmd \in AudioCommands
        /\ last'.status = 200
        /\ \E k \in 1..Len(last'.calls) : last'.calls[k] = "play"
        /\ LET i == TargetOf(last'.req, voice_clients) IN
             /\ i # 0
             /\ is_playing(voice_clients[i]) \/ is_paused(voice_clients[i]))
          => StopThenPlay(last'.calls)]_vars

Connected(vcs) == {i \in 1..Len(vcs) : is_connected(vcs[i])}

\* C15: PlayMedia without a target voice destination plays only when
\* exactly one handle is connected, and then on that handle; with no
\* connected handle or with more than one it returns 400 and starts no
\* playback.
C15_NoTargetNeedsTheSingleHandle ==
    [][(Starts("playyt") /\ Accepted /\ last'.req.vcid = NoChannel)
          => IF Cardinality(Connected(voice_clients)) = 1
             THEN last'.status = 200
                     => \A i \in 1..Len(voice_clients) :
                            voice_clients'[i] # voice_clients[i] => is_connected(voice_clients[i])
             ELSE last'.status = 400 /\ voice_clients' = voice_clients]_vars

(***************************************************************************)
(* Controller: the lifecycle of a voice handle.                            *)
(***************************************************************************)
\* the lifecycle state of the handle object id in registry vcs
Life(vcs, id) ==
    LET i == IdxOfId(vcs, id) IN
    IF i = 0 THEN "Absent"
    ELSE IF vcs[i].conn = "connecting" THEN "Connecting"
    ELSE IF vcs[i].conn = "closing" THEN "Closing"
    ELSE PlaybackState(vcs[i])

\* the hops of the lifecycle: Connected is the idle state every hop other
\* than Playing <-> Paused starts from or ends in
LifecycleHops ==
    { <<"Absent", "Connecting">>, <<"Connecting", "Connected">>,
      <<"Connecting", "Absent">>, <<"Connected", "Playing">>,
      <<"Playing", "Paused">>, <<"Paused", "Playing">>,
      <<"Playing", "Connected">>, <<"Paused", "Connected">>,
      <<"Connected", "Closing">>, <<"Closing", "Absent">> }

\* what one call to the session runtime does to the handle it is made on;
\* a call that raises or does not concern the lifecycle leaves it as it is
Hop(L, call) ==
    CASE call = "connect"   -> IF L = "Absent" THEN "Connecting" ELSE L
      [] call = "connected" -> "Connected"
      [] call = "closed"    -> "Absent"
      [] call = "stop"      -> IF L \in {"Playing", "Paused"} THEN "Connected" ELSE L
      [] call = "end"       -> "Connected"
      [] call = "play"      -> "Playing"
      [] call = "pause"     -> "Paused"
      [] call = "resume"    -> "Playing"
      [] call = "close"     -> "Closing"
      [] OTHER              -> L

\* vc.disconnect stops the player, then closes the connection
RECURSIVE Expand(_)
Expand(calls) ==
    IF calls = <<>> THEN <<>>
    ELSE IF Head(calls) = "disconnect" THEN <<"stop", "close">> \o Expand(Tail(calls))
    ELSE <<Head(calls)>> \o Expand(Tail(calls))

RECURSIVE PathFrom(_, _)
PathFrom(L, calls) ==
    IF calls = <<>> THEN <<L>>
    ELSE <<L>> \o PathFrom(Hop(L, Head(calls)), Tail(calls))

\* the await the turn resumed from, "start" for a first turn
ResumedFrom ==
    IF \E s \in Slots : reqs[s] # Free /\ reqs'[s] # reqs[s]
    THEN reqs[CHOOSE s \in Slots : reqs[s] # Free /\ reqs'[s] # reqs[s]].pc
    ELSE "start"

\* the calls that reach handle id in the step, those of the runtime's own
\* completions first
EffectsOn(id) ==
    IF last = Idle /\ last' = Idle
    THEN <<"end">>
    ELSE LET done == IF last'.failed = "play"
                     THEN SubSeq(last'.calls, 1, Len(last'.calls) - 1)
                     ELSE last'.calls
             head == IF ResumedFrom = "connect"
                     THEN (IF IdxOfId(voice_clients', id) # 0
                           THEN <<"connected">> ELSE <<"closed">>)
                     ELSE IF ResumedFrom = "disconnect" THEN <<"closed">>
                     ELSE <<>>
         IN  head \o Expand(done)

\* the handle's lifecycle state changes in the step along allowed hops only
FollowsLifecycle(id) ==
    Life(voice_clients', id) # Life(voice_clients, id)
        => LET path == PathFrom(Life(voice_clients, id), EffectsOn(id)) IN
           /\ path[Len(path)] = Life(voice_clients', id)
           /\ \A k \in 1..(Len(path) - 1) :
                 path[k] = path[k + 1] \/ <<path[k], path[k + 1]>> \in LifecycleHops

HandleIds ==
    {voice_clients[i].id : i \in 1..Len(voice_clients)}

LifecycleStates ==
    \A i \in 1..Len(voice_clients) :
        /\ ~(is_playing(voice_clients[i]) /\ is_paused(voice_clients[i]))
        /\ (is_playing(voice_clients[i]) \/ is_paused(voice_clients[i]))
              => is_connected(voice_clients[i])

OtherGuilds(vcs, g) ==
    {vcs[i] : i \in {j \in 1..Len(vcs) : vcs[j].guild # g}}

\* C17: commands addressed to different guilds are independent: a turn of a
\* Speak addressed to one guild leaves the handle, the bound source and the
\* audio content of every other guild as they were, so each of two Speak
\* commands in different guilds plays the audio of its own text
C17_GuildsAreIndependent ==
    [][Turn /\ last'.req.cmd = "speak" /\ last'.req.vcid # NoChannel
         => OtherGuilds(voice_clients', GuildOf(last'.req.vcid))
              = OtherGuilds(voice_clients, GuildOf(last'.req.vcid))]_vars

CallSet(calls) == {calls[i] : i \in 1..Len(calls)}

\* the awaits of EquipmentCheckSoundOff that follow the delivery of its text
AfterText == {"send", "connect", "move_to", "ai_tts"}

\* what the audio stage calls
AudioStageCalls == {"connect", "move_to", "ai_tts", "write", "stop", "play"}

\* the turn called play and the handle of its request plays the command's
\* scratch file
PlaysItsAudio ==
    /\ "play" \in CallSet(last'.calls)
    /\ \E i \in 1..Len(voice_clients') :
        /\ voice_clients'[i].id = last'.req.h
        /\ is_playing(voice_clients'[i])
        /\ voice_clients'[i].player.file = ScratchFile(last'.req)

\* C18: EquipmentCheckSoundOff joins the voice destination and synthesizes
\* only after its text message was sent; once the text is out, the command
\* answers success only if its audio plays or no voice destination was given
\* (an invalid voice destination answers 400, a failed synthesis or playback
\* an error, none is replaced by a fallback); without a voice destination it
\* touches no handle and no playback state
C18_SoundOffTextThenAudio ==
    [][Turn /\ last'.req.cmd = "soundoff" =>
        /\ CallSet(last'.calls) \cap AudioStageCalls # {} => ResumedFrom \in AfterText
        /\ ResumedFrom \in AfterText /\ last'.req.vcid # NoChannel =>
              /\ last'.status # 0 => (last'.status = 200 <=> PlaysItsAudio)
              /\ last'.req.vcid \notin VoiceChannelIds => last'.status = 400
        /\ last'.req.vcid = NoChannel =>
              /\ voice_clients' = voice_clients
              /\ CallSet(last'.calls) \cap AudioStageCalls = {}]_vars

\* the synthesis of a sound-off failed after its text was delivered: the
\* command answers the error
C18_Witness ==
    /\ last.req.cmd = "soundoff"
    /\ last.req.pc = "ai_tts"
    /\ last.req.skit # "none"
    /\ last.status = 500
    /\ last.failed = "ai_tts"

\* the handles of vcs that play the media of url
PlayingUrl(vcs, url) ==
    {i \in 1..Len(vcs) : /\ is_playing(vcs[i])
                         /\ vcs[i].player.kind = "yt"
                         /\ vcs[i].player.text = url}

\* C19: PlayMedia stops the old source and plays the new one in one turn,
\* with no suspension between them, and a PlayMedia that answers success
\* leaves its handle Playing exactly its own source: of two concurrent
\* PlayMedia commands on one guild that both succeed, the handle plays the
\* source of the one whose play ran last, never both and never none
C19_PlayMediaIsAtomic ==
    [][Turn /\ last'.req.cmd = "playyt" =>
        LET i == playyt_locate(last'.req, voice_clients') IN
        /\ "stop" \in CallSet(last'.calls) => StopThenPlay(last'.calls)
        /\ last'.status = 200 =>
              /\ i # 0
              /\ PlayingUrl(voice_clients', last'.req.text) = {i}
              /\ \A j \in 1..Len(voice_clients') :
                    voice_clients'[j].guild = voice_clients'[i].guild => j = i]_vars

\* a PlayMedia that was suspended in move_to has replaced the source of the
\* handle while another PlayMedia for the same destination and another url
\* is still suspended there
C19_Witness ==
    /\ last.req.cmd = "playyt"
    /\ last.req.pc = "move_to"
    /\ last.status = 200
    /\ StopThenPlay(last.calls)
    /\ PlayingUrl(voice_clients, last.req.text) # {}
    /\ \E s \in Slots :
          /\ reqs[s].cmd = "playyt"
          /\ reqs[s].pc = "move_to"
          /\ reqs[s].vcid = last.req.vcid
          /\ reqs[s].text # last.req.text

\* C20: Speak never calls play on a handle that is no longer connected: when
\* it resumes from the synthesis and plays, the handle it obtained before
\* the synthesis is still registered, connected, and on the requested voice
\* destination, whatever LeaveVoice or JoinVoice ran in between
C20_SpeakPlaysOnItsLiveHandle ==
    [][/\ Turn
       /\ last'.req.cmd = "speak"
       /\ ResumedFrom = "ai_tts"
       /\ "play" \in CallSet(last'.calls)
       => \E i \in 1..Len(voice_clients) :
             /\ voice_clients[i].id = last'.req.h
             /\ is_connected(voice_clients[i])
             /\ voice_clients[i].channel = last'.req.vcid]_vars
====
